---------------------------- MODULE Spec2Model ----------------------------
(***************************************************************************)
(* A model of browser-tools-go: the persistent browser session (Start,     *)
(* Close, NewPersistentContext over the ws.json session record), the `run` *)
(* command's temporary browser, utils.Retry and browser.WaitForWS.         *)
(*                                                                         *)
(* Each component has its own specification (SpecSession, SpecRun,         *)
(* SpecRetry, SpecWait); a specification holds the variables of the other  *)
(* components at their initial values.                                     *)
(***************************************************************************)
EXTENDS Integers, Sequences, FiniteSets, TLC

(***************************************************************************)
(* Bounds of the model.                                                    *)
(***************************************************************************)
\* how many times Start is invoked in one behaviour (each by its own CLI
\* process; invocations may overlap)
MaxStarts == 2

(***************************************************************************)
(* Program constants.                                                      *)
(***************************************************************************)
\* the default of the start command's --port flag
DefaultPort == 9222

Ports == {DefaultPort, DefaultPort + 1}
\* each Start spawns at most one process
Pids == 1..MaxStarts
Starts == 1..MaxStarts

VARIABLES
    \* ---- persistent session -------------------------------------------
    file,       \* content of ws.json as LoadWsInfo sees it: NoRecord or a WsInfo
    procs,      \* pid -> the browser process spawned with that pid
    nextPid,    \* the pid the next spawn gets
    spc,        \* Start invocation -> where it is in Start
    sPort,      \* Start invocation -> its port argument
    sPid,       \* Start invocation -> pid of the process it spawned (0: none)
    sRes,       \* Start invocation -> what it returned ("none": not yet)
    closeRes,   \* what the last Close returned
    attachRes,  \* what the last NewPersistentContext returned
    pctx        \* the persistent context the last attach yielded, or NoCtx


VARIABLES
    \* ---- the run command's temporary browser ---------------------------
    rpc,        \* where the run invocation is
    rVariant,   \* which newRunCmd serves it: "inline" or "hooks"
    rSub,       \* args[0], the subcommand name ("": run got no argument)
    rArgs,      \* len(args[1:])
    tmpCtx,     \* "none", "created" (NewTemporaryContext returned), "released"
    tmpProc,    \* the temporary browser process: "none", "running", "killed"
    rExit       \* the exit code of the CLI process (-1: still running)

VARIABLES
    \* ---- utils.Retry -------------------------------------------------
    tpc,        \* where Retry is: "idle", "call", "infn", "backoff", "done"
    cfg,        \* the RetryConfig
    script,     \* what fn does: fails retryably `fails` times, then `then`
    attempt,    \* the loop variable (0-indexed)
    calls,      \* how many times fn has been invoked
    lastErr,    \* the error of the last failed call (NoErr: none)
    onRetryLog, \* the attempt numbers OnRetry was called with, in order
    sleeps,     \* the backoff delays slept in full, in order
    curBackoff, \* the delay of the backoff being slept
    ctxDone,    \* the context passed to Retry is cancelled
    cancelAt,   \* where Retry was when the context got cancelled
    tRes        \* what Retry returned

VARIABLES
    \* ---- browser.WaitForWS -------------------------------------------
    wpc,        \* where WaitForWS is: "idle", "loop", "sleep", "done"
    wMaxWait,   \* maxWait, in ticks of the poll interval
    wNow,       \* time since WaitForWS was called, in ticks
    wUp,        \* the endpoint accepts connections
    wCtxDone,   \* the caller's context is cancelled
    wDials,     \* DialContext calls made
    wDialsAfterCancel, \* DialContext calls made with the context cancelled
    wConnected, \* a DialContext call has succeeded
    wRes        \* what WaitForWS returned

VARIABLES
    \* ---- logic.fetchContentForResults --------------------------------
    fpc,        \* where the calling goroutine is: "idle", "admit", "drain",
                \* "done"
    fCap,       \* maxConcurrent, the capacity of the semaphore channel
    fI,         \* the index of the admission loop (1-indexed)
    fD,         \* the index of the drain loop
    fSem,       \* how many values the semaphore channel holds
    gpc,        \* item -> where its goroutine is: "none", "navigate", "wait",
                \* "eval", "release" (the deferred receive), "exited"
    gErr,       \* item -> chromedp.Run returned an error in its goroutine
    content,    \* item -> the text Evaluate stored in its goroutine's
                \* variable content
    page,       \* the link the tab of the shared browser context shows
    results,    \* the results slice
    fErr        \* the error fetchContentForResults returned ("none": not yet)

VARIABLES
    \* ---- the truncation of fetched content ----------------------------
    xText,      \* the text Evaluate gave
    xStored     \* what is stored as Content for it

VARIABLES
    \* ---- logic.extractSearchResults ----------------------------------
    epc,        \* where extractSearchResults is: "idle", "loop", "done"
    selectors,  \* the GoogleSearchSelectors: how many candidates ResultItem,
                \* Title and Snippet hold
    eK,         \* how many strategies the nested loops have been through
    eTried,     \* the strategies tryExtractOneStrategy was called with, in
                \* order
    eLastErr,   \* the variable lastErr
    eRes        \* what extractSearchResults returned

VARIABLES
    \* ---- an action command (navigate, screenshot, pick, ...) ------------
    cpc,        \* where the invocation is: "idle", "prerun", "run", "postrun",
                \* "outer" (the post-run hook of run), "exited"
    cName,      \* the command
    cStyle,     \* how the command is written: "Run" or "RunE"
    cRecord,    \* a session record exists
    cPlaced,    \* run has placed its temporary browser context on the command
    cAnnot,     \* cmd.Annotations["error"] is set
    cAttached,  \* NewPersistentContext has attached to the persistent session
    cCtx,       \* the browserCtx on the command's context: "none",
                \* "temporary", "persistent"
    cTmp,       \* the temporary context: "none", "live", "released"
    cTmpBy,     \* who released it: "none", "run", "command"
    cPers,      \* the persistent context: "none", "live", "released"
    cLogic,     \* the command's browser logic has been run
    cOut,       \* how many results have been written to the output stream
    cExit       \* the exit code of the process (-1: still running)


\* utils.DefaultIsRetryable (internal/utils/retry.go)
VARIABLES
    dpc,        \* "idle" | "done"
    dErr,       \* the error handed to DefaultIsRetryable
    dRes        \* its result


\* logic.EnhancedHnScraper: the page-ready wait (unnamed/part_002)
VARIABLES
    hpc,        \* "idle" | "wait" | "check" | "done"
    hWait,      \* config.HackerNews.FallbackWait, a sequence of selectors
    hVisible,   \* the selectors that become visible on the page
    hK,         \* how many selectors the loop has tried
    waitErr,    \* NoWaitErr or the error of a WaitVisible
    hRes        \* "none" | "navigate_failed" | "wait_failed" | "extract"


\* logic.Search (internal/logic/scraping.go)
VARIABLES
    qpc,        \* "idle" | "done"
    qPage,      \* the result page: a sequence of result-item containers
    qNum,       \* numResults
    qRes,       \* the []models.SearchResult returned
    qErr        \* "nil" | the step that failed


\* logic.HnScraper (internal/logic/scraping.go) and logic.extractHnData
\* (unnamed/part_002)
VARIABLES
    npc,        \* "idle" | "done"
    nFn,        \* the function called
    nCounts,    \* how many elements of the page each selector matches
    nLimit,     \* limit
    nRes,       \* the []models.HnSubmission returned
    nErr        \* "nil" | "navigate" | "extract" | "panic"

sessionVars == <<file, procs, nextPid, spc, sPort, sPid, sRes, closeRes,
                 attachRes, pctx>>
runVars == <<rpc, rVariant, rSub, rArgs, tmpCtx, tmpProc, rExit>>
retryVars == <<tpc, cfg, script, attempt, calls, lastErr, onRetryLog, sleeps,
               curBackoff, ctxDone, cancelAt, tRes>>
waitVars == <<wpc, wMaxWait, wNow, wUp, wCtxDone, wDials, wDialsAfterCancel,
              wConnected, wRes>>

fetchVars == <<fpc, fCap, fI, fD, fSem, gpc, gErr, content, page, results,
               fErr>>

truncVars == <<xText, xStored>>

extractVars == <<epc, selectors, eK, eTried, eLastErr, eRes>>

cmdVars == <<cpc, cName, cStyle, cRecord, cPlaced, cAnnot, cAttached, cCtx,
             cTmp, cTmpBy, cPers, cLogic, cOut, cExit>>

classifyVars == <<dpc, dErr, dRes>>

hnWaitVars == <<hpc, hWait, hVisible, hK, waitErr, hRes>>

searchVars == <<qpc, qPage, qNum, qRes, qErr>>

hnVars == <<npc, nFn, nCounts, nLimit, nRes, nErr>>

vars == <<sessionVars, runVars, retryVars, waitVars, fetchVars, truncVars,
          extractVars, cmdVars, classifyVars, hnWaitVars, searchVars,
          hnVars>>

\* what an action of one component leaves alone
notSession == <<runVars, retryVars, waitVars, fetchVars, truncVars,
                extractVars, cmdVars, classifyVars, hnWaitVars, searchVars,
                hnVars>>
notRun == <<sessionVars, retryVars, waitVars, fetchVars, truncVars,
            extractVars, cmdVars, classifyVars, hnWaitVars, searchVars,
            hnVars>>
notRetry == <<sessionVars, runVars, waitVars, fetchVars, truncVars,
              extractVars, cmdVars, classifyVars, hnWaitVars, searchVars,
              hnVars>>
notWait == <<sessionVars, runVars, retryVars, fetchVars, truncVars,
             extractVars, cmdVars, classifyVars, hnWaitVars, searchVars,
             hnVars>>
notFetch == <<sessionVars, runVars, retryVars, waitVars, truncVars,
              extractVars, cmdVars, classifyVars, hnWaitVars, searchVars,
              hnVars>>
notTrunc == <<sessionVars, runVars, retryVars, waitVars, fetchVars,
              extractVars, cmdVars, classifyVars, hnWaitVars, searchVars,
              hnVars>>
notCmd == <<sessionVars, runVars, retryVars, waitVars, fetchVars, truncVars,
            extractVars, classifyVars, hnWaitVars, searchVars, hnVars>>
notExtract == <<sessionVars, runVars, retryVars, waitVars, fetchVars,
                truncVars, cmdVars, classifyVars, hnWaitVars, searchVars,
                hnVars>>
notClassify == <<sessionVars, runVars, retryVars, waitVars, fetchVars,
                 truncVars, extractVars, cmdVars, hnWaitVars, searchVars,
                 hnVars>>
notHnWait == <<sessionVars, runVars, retryVars, waitVars, fetchVars,
               truncVars, extractVars, cmdVars, classifyVars, searchVars,
               hnVars>>
notSearch == <<sessionVars, runVars, retryVars, waitVars, fetchVars,
               truncVars, extractVars, cmdVars, classifyVars, hnWaitVars,
               hnVars>>
notHn == <<sessionVars, runVars, retryVars, waitVars, fetchVars, truncVars,
           extractVars, cmdVars, classifyVars, hnWaitVars, searchVars>>

(***************************************************************************)
(* config: the session record (ws.json)                                    *)
(***************************************************************************)
NoRecord == [url |-> <<>>, pid |-> 0]
NoCtx == [url |-> <<>>]

\* fmt.Sprintf("ws://127.0.0.1:%d", port)
WsURL(port) == <<"ws", "127.0.0.1", port>>

\* WsInfo{Url: url, Pid: pid}
WsInfo(url, pid) == [url |-> url, pid |-> pid]

\* LoadWsInfo returns err == nil: the file is there, readable and parses
LoadWsInfoAlwaysFails == FALSE
LoadWsInfoOk == file # NoRecord

\* a process as the OS knows it
Unborn == [st |-> "unborn", port |-> 0, listening |-> FALSE, sigs |-> {}]

\* some live process accepts TCP connections on the port
Connectable(port) ==
    \E p \in Pids : /\ procs[p].st = "running"
                    /\ procs[p].port = port
                    /\ procs[p].listening

\* a kill that never reaches the process
KillIgnored(p) == procs

\* proc.Process.Kill(): SIGKILL; an error (process already gone) is dropped
Kill(p) ==
    IF procs[p].st = "running"
    THEN [procs EXCEPT ![p].st = "dead", ![p].listening = FALSE,
                       ![p].sigs = @ \cup {"KILL"}]
    ELSE procs

\* proc.Signal(syscall.SIGTERM): delivered to a live process, which exits;
\* an error for a process that is gone (logged by Close)
SignalTerm(p) ==
    IF procs[p].st = "running"
    THEN [procs EXCEPT ![p].st = "dead", ![p].listening = FALSE,
                       ![p].sigs = @ \cup {"TERM"}]
    ELSE procs

(***************************************************************************)
(* browser.Start, one step per blocking call, so that invocations (of      *)
(* separate CLI processes) interleave.                                     *)
(***************************************************************************)
StartFinish(i, res) ==
    /\ spc' = [spc EXCEPT ![i] = "done"]
    /\ sRes' = [sRes EXCEPT ![i] = res]

\* LoadWsInfo, then exec.LookPath over the executable names
StartLoad(i, port) ==
    /\ spc[i] = "idle"
    /\ \A j \in Starts : j < i => spc[j] # "idle"   \* numbered as issued
    /\ sPort' = [sPort EXCEPT ![i] = port]
    /\ IF LoadWsInfoOk
       THEN StartFinish(i, "already_running")
       ELSE \E chromeFound \in BOOLEAN :
                IF chromeFound
                THEN /\ spc' = [spc EXCEPT ![i] = "spawn"]
                     /\ sRes' = sRes
                ELSE StartFinish(i, "no_chrome")
    /\ UNCHANGED <<file, procs, nextPid, sPid, closeRes, attachRes, pctx>>
    /\ UNCHANGED notSession

\* exec.Command(chromePath, chromeArgs...).Start()
StartSpawn(i) ==
    /\ spc[i] = "spawn"
    /\ \/ /\ procs' = [procs EXCEPT ![nextPid] =
                          [st |-> "running", port |-> sPort[i],
                           listening |-> FALSE, sigs |-> {}]]
          /\ sPid' = [sPid EXCEPT ![i] = nextPid]
          /\ nextPid' = nextPid + 1
          /\ spc' = [spc EXCEPT ![i] = "wait"]
          /\ sRes' = sRes
       \/ /\ StartFinish(i, "spawn_failed")
          /\ UNCHANGED <<procs, sPid, nextPid>>
    /\ UNCHANGED <<file, sPort, closeRes, attachRes, pctx>>
    /\ UNCHANGED notSession

\* WaitForWS(context.Background(), wsURL, 5*time.Second): nil when a probe of
\* the port connects, an error when none did in time
StartWait(i) ==
    /\ spc[i] = "wait"
    /\ IF Connectable(sPort[i])
       THEN /\ spc' = [spc EXCEPT ![i] = "save"]
            /\ UNCHANGED <<sRes, procs>>
       ELSE /\ procs' = Kill(sPid[i])
            /\ StartFinish(i, "wait_failed")
    /\ UNCHANGED <<file, nextPid, sPort, sPid, closeRes, attachRes, pctx>>
    /\ UNCHANGED notSession

\* config.SaveWsInfo(wsURL, proc.Process.Pid)
StartSave(i) ==
    /\ spc[i] = "save"
    /\ \E saveOk \in BOOLEAN :
          IF saveOk
          THEN /\ file' = WsInfo(WsURL(sPort[i]), sPid[i])
               /\ StartFinish(i, "ok")
               /\ procs' = procs
          ELSE /\ procs' = Kill(sPid[i])
               /\ StartFinish(i, "save_failed")
               /\ file' = file
    /\ UNCHANGED <<nextPid, sPort, sPid, closeRes, attachRes, pctx>>
    /\ UNCHANGED notSession

(***************************************************************************)
(* browser.Close                                                           *)
(***************************************************************************)
\* found: os.FindProcess returned no error; rmOk: os.Remove of ws.json worked
CloseBodySkipsCleanup(found, rmOk) ==
    IF ~LoadWsInfoOk
    THEN /\ closeRes' = "not_running"
         /\ UNCHANGED <<file, procs>>
    ELSE IF found /\ procs[file.pid].st = "running"
         THEN /\ procs' = SignalTerm(file.pid)
              /\ IF rmOk
                 THEN file' = NoRecord /\ closeRes' = "ok"
                 ELSE file' = file /\ closeRes' = "remove_failed"
         ELSE /\ closeRes' = "signal_failed"
              /\ UNCHANGED <<file, procs>>

CloseBodyNoRecordOk(found, rmOk) ==
    IF ~LoadWsInfoOk
    THEN /\ closeRes' = "ok"
         /\ UNCHANGED <<file, procs>>
    ELSE /\ procs' = IF found THEN SignalTerm(file.pid) ELSE procs
         /\ IF rmOk
            THEN file' = NoRecord /\ closeRes' = "ok"
            ELSE file' = file /\ closeRes' = "remove_failed"

CloseBody(found, rmOk) ==
    IF ~LoadWsInfoOk
    THEN /\ closeRes' = "not_running"
         /\ UNCHANGED <<file, procs>>
    ELSE /\ procs' = IF found THEN SignalTerm(file.pid) ELSE procs
         /\ IF rmOk
            THEN file' = NoRecord /\ closeRes' = "ok"
            ELSE file' = file /\ closeRes' = "remove_failed"

Close ==
    /\ \E found \in BOOLEAN, rmOk \in BOOLEAN : CloseBody(found, rmOk)
    /\ UNCHANGED <<nextPid, spc, sPort, sPid, sRes, attachRes, pctx>>
    /\ UNCHANGED notSession

(***************************************************************************)
(* browser.NewPersistentContext and the cancel function it returns         *)
(***************************************************************************)
NewPersistentContext ==
    /\ IF LoadWsInfoOk
       THEN /\ pctx' = [url |-> file.url]
            /\ attachRes' = "ok"
       ELSE /\ pctx' = pctx
            /\ attachRes' = "not_running"
    /\ UNCHANGED <<file, procs, nextPid, spc, sPort, sPid, sRes, closeRes>>
    /\ UNCHANGED notSession

\* an allocator that owns the browser it is connected to and ends it when
\* cancelled, as the one of a temporary context does
CancelAllocatorKills(url) ==
    [p \in Pids |->
        IF procs[p].st = "running" /\ procs[p].listening
           /\ WsURL(procs[p].port) = url
        THEN [procs[p] EXCEPT !.st = "dead", !.listening = FALSE]
        ELSE procs[p]]

\* cancel1() of chromedp.NewRemoteAllocator: the connection to the browser
\* at url is closed, the browser is not the allocator's to end
CancelAllocator(url) == procs

\* cancel2(); cancel1(): the chromedp context and the remote allocator
CancelPersistent ==
    /\ pctx # NoCtx
    /\ pctx' = NoCtx
    /\ procs' = CancelAllocator(pctx.url)
    /\ UNCHANGED <<file, nextPid, spc, sPort, sPid, sRes, closeRes, attachRes>>
    /\ UNCHANGED notSession

(***************************************************************************)
(* The browser processes themselves                                        *)
(***************************************************************************)
\* the browser opens its debugging port, when no other process holds it
BrowserListens(p) ==
    /\ procs[p].st = "running"
    /\ ~procs[p].listening
    /\ ~Connectable(procs[p].port)
    /\ procs' = [procs EXCEPT ![p].listening = TRUE]
    /\ UNCHANGED <<file, nextPid, spc, sPort, sPid, sRes, closeRes, attachRes,
                   pctx>>
    /\ UNCHANGED notSession

\* the browser exits on its own (a crash, the user closing it)
BrowserExits(p) ==
    /\ procs[p].st = "running"
    /\ procs' = [procs EXCEPT ![p].st = "dead", ![p].listening = FALSE]
    /\ UNCHANGED <<file, nextPid, spc, sPort, sPid, sRes, closeRes, attachRes,
                   pctx>>
    /\ UNCHANGED notSession

SessionInit ==
    /\ file = NoRecord
    /\ procs = [p \in Pids |-> Unborn]
    /\ nextPid = 1
    /\ spc = [i \in Starts |-> "idle"]
    /\ sPort = [i \in Starts |-> 0]
    /\ sPid = [i \in Starts |-> 0]
    /\ sRes = [i \in Starts |-> "none"]
    /\ closeRes = "none"
    /\ attachRes = "none"
    /\ pctx = NoCtx

SessionNext ==
    \/ \E i \in Starts, port \in Ports : StartLoad(i, port)
    \/ \E i \in Starts : StartSpawn(i)
    \/ \E i \in Starts : StartWait(i)
    \/ \E i \in Starts : StartSave(i)
    \/ Close
    \/ NewPersistentContext
    \/ CancelPersistent
    \/ \E p \in Pids : BrowserListens(p)
    \/ \E p \in Pids : BrowserExits(p)

(***************************************************************************)
(* The run command: newRunCmd of internal/cmd/run.go (the temporary        *)
(* browser made and released by the command's persistent hooks) and        *)
(* newRunCmd of the inline version (made in Run, released by defer).       *)
(***************************************************************************)
\* the most arguments a subcommand of run is given
MaxSubArgs == 2

ExitSuccess == 0
ExitError == 1

SubNames == {"", "navigate", "screenshot", "pick", "hn-scraper", "search"}

\* log.Fatal / log.Fatalf: os.Exit(1); deferred functions do not run.  The
\* allocator's process, if any, is not signalled by this program: it stays
\* ("running") unless the platform kills the children of a dead parent.
Fatal ==
    /\ rpc' = "done"
    /\ rExit' = ExitError
    /\ tmpCtx' = tmpCtx
    /\ tmpProc' \in IF tmpProc = "running" THEN {"running", "killed"} ELSE {tmpProc}

\* cancel2(); cancel1() of NewTemporaryContext: the exec allocator kills the
\* browser it started
CancelTemporary ==
    /\ tmpCtx' = "released"
    /\ tmpProc' = IF tmpProc = "running" THEN "killed" ELSE tmpProc

\* cobra runs the command: argument validation, then the pre-run hook (hooks)
\* or the head of Run (inline), up to NewTemporaryContext
RunInvoke(variant, sub, nargs) ==
    /\ rpc = "idle"
    /\ (sub = "") => nargs = 0
    /\ rVariant' = variant
    /\ rSub' = sub
    /\ rArgs' = nargs
    /\ tmpProc' = tmpProc
    /\ IF variant = "inline"
       THEN IF sub = ""
            THEN \* Args: cobra.MinimumNArgs(1) fails; Execute exits
                 /\ rpc' = "done" /\ rExit' = ExitError /\ tmpCtx' = tmpCtx
            ELSE /\ rpc' = "dispatch" /\ rExit' = rExit /\ tmpCtx' = "created"
       ELSE IF sub = ""
            THEN \* PersistentPreRunE: return cmd.Help()
                 /\ rpc' = "run" /\ rExit' = rExit /\ tmpCtx' = tmpCtx
            ELSE /\ rpc' = "run" /\ rExit' = rExit /\ tmpCtx' = "created"
    /\ UNCHANGED notRun

\* inline: the switch on the subcommand name, up to the call of its logic
RunDispatch ==
    /\ rpc = "dispatch"
    /\ \/ /\ rSub \in {"navigate", "pick"}
          /\ IF rArgs # 1
             THEN Fatal
             ELSE rpc' = "logic" /\ UNCHANGED <<tmpCtx, tmpProc, rExit>>
       \/ /\ rSub = "screenshot"
          /\ rpc' = "logic" /\ UNCHANGED <<tmpCtx, tmpProc, rExit>>
       \/ /\ rSub = "hn-scraper"
          /\ \E atoiOk \in BOOLEAN :
                IF rArgs > 0 /\ ~atoiOk
                THEN Fatal
                ELSE rpc' = "logic" /\ UNCHANGED <<tmpCtx, tmpProc, rExit>>
       \/ /\ rSub \notin {"navigate", "pick", "screenshot", "hn-scraper"}
          /\ Fatal
    /\ UNCHANGED <<rVariant, rSub, rArgs>>
    /\ UNCHANGED notRun

\* inline: the logic's first chromedp.Run makes the allocator start the browser
RunLogicSpawn ==
    /\ rpc = "logic"
    /\ \E spawnOk \in BOOLEAN :
          IF spawnOk
          THEN /\ tmpProc' = "running"
               /\ rpc' = "running"
               /\ UNCHANGED <<tmpCtx, rExit>>
          ELSE Fatal
    /\ UNCHANGED <<rVariant, rSub, rArgs>>
    /\ UNCHANGED notRun

\* inline: the logic returns; on an error log.Fatalf, else Run returns and
\* its deferred function calls cancel
RunLogicEnds ==
    /\ rpc = "running"
    /\ \E failed \in BOOLEAN :
          IF failed
          THEN Fatal
          ELSE /\ CancelTemporary
               /\ rpc' = "done"
               /\ rExit' = ExitSuccess
    /\ UNCHANGED <<rVariant, rSub, rArgs>>
    /\ UNCHANGED notRun

\* hooks: Run itself only prints the help when it has no arguments
RunHooksRun ==
    /\ rpc = "run"
    /\ rpc' = "post"
    /\ UNCHANGED <<rVariant, rSub, rArgs, tmpCtx, tmpProc, rExit>>
    /\ UNCHANGED notRun

\* hooks: PersistentPostRun cancels the context found on the root command
RunHooksPost ==
    /\ rpc = "post"
    /\ IF tmpCtx = "created"
       THEN CancelTemporary
       ELSE UNCHANGED <<tmpCtx, tmpProc>>
    /\ rpc' = "done"
    /\ rExit' = ExitSuccess
    /\ UNCHANGED <<rVariant, rSub, rArgs>>
    /\ UNCHANGED notRun

RunNext ==
    \/ \E variant \in {"inline", "hooks"}, sub \in SubNames, nargs \in 0..MaxSubArgs :
          RunInvoke(variant, sub, nargs)
    \/ RunDispatch
    \/ RunLogicSpawn
    \/ RunLogicEnds
    \/ RunHooksRun
    \/ RunHooksPost

(***************************************************************************)
(* utils.Retry.  Durations are whole numbers of nanoseconds; the float     *)
(* BackoffMultiplier is a number of halves (3 is 1.5).  fn is a script: it *)
(* fails with a retryable error `fails` times and then does `then` (returns*)
(* nil, a non-retryable error, or a retryable error again) on every call.  *)
(* cfg.IsRetryable is read off the error: the script says which errors the *)
(* predicate accepts.                                                      *)
(***************************************************************************)
\* the largest MaxAttempts of a RetryConfig
MaxAttemptsBound == 3

InitialBackoffs == {0, 1, 3}
MaxBackoffs == {0, 2, 4}
MultiplierHalves == {0, 2, 3, 4}

RetryConfigs ==
    [MaxAttempts : 0..MaxAttemptsBound, InitialBackoff : InitialBackoffs,
     MaxBackoff : MaxBackoffs, BackoffMultiplier : MultiplierHalves,
     hasOnRetry : BOOLEAN]

Scripts ==
    {sc \in [fails : 0..MaxAttemptsBound, then : {"ok", "fatal", "retryable"}] :
        sc.then = "retryable" => sc.fails = 0}

NoErr == [id |-> 0, retryable |-> FALSE]
\* the error of fn's k-th call
Err(k, r) == [id |-> k, retryable |-> r]
\* ctx.Err()
CtxErr == [id |-> -1, retryable |-> FALSE]

NoResult == [kind |-> "none", err |-> NoErr, attempts |-> 0]
NotCancelled == [at |-> "never", calls |-> 0]

\* err := fn(), for the k-th call
FnResult(k) ==
    IF k <= script.fails THEN Err(k, TRUE)
    ELSE IF script.then = "ok" THEN NoErr
    ELSE Err(k, script.then = "retryable")

\* config.IsRetryable(err)
IsRetryableAlways(err) == TRUE
IsRetryable(err) == err.retryable

\* attempt >= config.MaxAttempts-1
ExhaustedOffByOne(a, c) == a >= c.MaxAttempts - 2
Exhausted(a, c) == a >= c.MaxAttempts - 1

\* the attempt number OnRetry is given: attempt+1
OnRetryArgZeroIndexed(a) == a
OnRetryArg(a) == a + 1

\* time.Duration(float64(backoff) * config.BackoffMultiplier)
Scale(backoff, halves) == (backoff * halves) \div 2

RECURSIVE backoffLoop(_, _, _, _)
backoffLoop(i, a, backoff, c) ==
    IF i >= a THEN backoff
    ELSE LET next == Scale(backoff, c.BackoffMultiplier)
         IN  IF next > c.MaxBackoff THEN c.MaxBackoff
             ELSE backoffLoop(i + 1, a, next, c)

calculateBackoff(a, c) == backoffLoop(0, a, c.InitialBackoff, c)

RetryReturn(kind, err, n) ==
    /\ tpc' = "done"
    /\ tRes' = [kind |-> kind, err |-> err, attempts |-> n]

\* Retry is called; cancelled: the context is already cancelled
RetryStart(c, sc, cancelled) ==
    /\ tpc = "idle"
    /\ tpc' = "call"
    /\ cfg' = c
    /\ script' = sc
    /\ ctxDone' = cancelled
    /\ cancelAt' = IF cancelled THEN [at |-> "before", calls |-> 0] ELSE cancelAt
    /\ UNCHANGED <<attempt, calls, lastErr, onRetryLog, sleeps, curBackoff, tRes>>
    /\ UNCHANGED notRetry

\* the head of the loop body: fn is invoked
RetryInvoke ==
    /\ tpc = "call"
    /\ tpc' = "infn"
    /\ calls' = calls + 1
    /\ UNCHANGED <<cfg, script, attempt, lastErr, onRetryLog, sleeps, curBackoff,
                   ctxDone, cancelAt, tRes>>
    /\ UNCHANGED notRetry

\* fn returns; the rest of the loop body up to the backoff select
RetryFnReturns ==
    /\ tpc = "infn"
    /\ LET err == FnResult(calls) IN
       IF err = NoErr
       THEN /\ RetryReturn("ok", NoErr, 0)
            /\ UNCHANGED <<lastErr, onRetryLog, curBackoff>>
       ELSE /\ lastErr' = err
            /\ IF ~IsRetryable(err)
               THEN /\ RetryReturn("error", err, 0)
                    /\ UNCHANGED <<onRetryLog, curBackoff>>
               ELSE IF Exhausted(attempt, cfg)
               THEN /\ RetryReturn("exhausted", err, cfg.MaxAttempts)
                    /\ UNCHANGED <<onRetryLog, curBackoff>>
               ELSE IF ctxDone
               THEN /\ RetryReturn("canceled", CtxErr, 0)
                    /\ UNCHANGED <<onRetryLog, curBackoff>>
               ELSE /\ curBackoff' = calculateBackoff(attempt, cfg)
                    /\ onRetryLog' =
                          IF cfg.hasOnRetry
                          THEN Append(onRetryLog,
                                      [n |-> OnRetryArg(attempt), err |-> err])
                          ELSE onRetryLog
                    /\ tpc' = "backoff"
                    /\ tRes' = tRes
    /\ UNCHANGED <<cfg, script, attempt, calls, sleeps, ctxDone, cancelAt>>
    /\ UNCHANGED notRetry

\* case <-time.After(backoff).  A context cancelled while Retry sleeps wakes
\* the select at once, so the timer wins only over a live context, or when
\* it fires at once (a zero delay) and the select picks among two ready cases.
RetryBackoffElapsed ==
    /\ tpc = "backoff"
    /\ ~ctxDone \/ curBackoff = 0
    /\ sleeps' = Append(sleeps, curBackoff)
    /\ attempt' = attempt + 1
    /\ tpc' = "call"
    /\ UNCHANGED <<cfg, script, calls, lastErr, onRetryLog, curBackoff, ctxDone,
                   cancelAt, tRes>>
    /\ UNCHANGED notRetry

\* case <-ctx.Done() of the backoff select
RetryBackoffCanceled ==
    /\ tpc = "backoff"
    /\ ctxDone
    /\ RetryReturn("canceled_backoff", CtxErr, 0)
    /\ UNCHANGED <<cfg, script, attempt, calls, lastErr, onRetryLog, sleeps,
                   curBackoff, ctxDone, cancelAt>>
    /\ UNCHANGED notRetry

\* the caller cancels the context while fn runs or while Retry sleeps
CancelCtx ==
    /\ tpc \in {"infn", "backoff"}
    /\ ~ctxDone
    /\ ctxDone' = TRUE
    /\ cancelAt' = [at |-> tpc, calls |-> calls]
    /\ UNCHANGED <<tpc, cfg, script, attempt, calls, lastErr, onRetryLog, sleeps,
                   curBackoff, tRes>>
    /\ UNCHANGED notRetry

(***************************************************************************)
(* browser.WaitForWS.  Time is counted in ticks of the poll interval       *)
(* (100 ms).                                                               *)
(***************************************************************************)
\* the largest maxWait, in ticks
MaxWaitTicks == 3

\* time.Sleep(100 * time.Millisecond)
PollTicks == 1
\* net.Dialer{Timeout: time.Second}
DialTimeoutTicks == 10

WaitReturn(res) ==
    /\ wpc' = "done"
    /\ wRes' = res

\* WaitForWS is called: deadline := time.Now().Add(maxWait)
WaitStart(maxWait, cancelled, up) ==
    /\ wpc = "idle"
    /\ wpc' = "loop"
    /\ wMaxWait' = maxWait
    /\ wCtxDone' = cancelled
    /\ wUp' = up
    /\ UNCHANGED <<wNow, wDials, wDialsAfterCancel, wConnected, wRes>>
    /\ UNCHANGED notWait

\* a loop that gives up one poll interval early
BeforeDeadlineShort(now, maxWait) == now + PollTicks < maxWait

\* time.Now().Before(deadline)
BeforeDeadline(now, maxWait) == now < maxWait

\* the loop condition and dialer.DialContext(ctx, "tcp", addr): a cancelled
\* context fails the dial at once; a refused connection fails at once, an
\* unanswered one after the dialer's timeout
WaitDial ==
    /\ wpc = "loop"
    /\ IF BeforeDeadline(wNow, wMaxWait)
       THEN /\ wDials' = wDials + 1
            /\ IF wCtxDone
               THEN /\ wDialsAfterCancel' = wDialsAfterCancel + 1
                    /\ wpc' = "sleep"
                    /\ UNCHANGED <<wNow, wConnected, wRes>>
               ELSE IF wUp
               THEN /\ wConnected' = TRUE
                    /\ WaitReturn("ok")
                    /\ UNCHANGED <<wNow, wDialsAfterCancel>>
               ELSE /\ \E cost \in {0, DialTimeoutTicks} : wNow' = wNow + cost
                    /\ wpc' = "sleep"
                    /\ UNCHANGED <<wDialsAfterCancel, wConnected, wRes>>
       ELSE /\ WaitReturn("timeout")
            /\ UNCHANGED <<wNow, wDials, wDialsAfterCancel, wConnected>>
    /\ UNCHANGED <<wMaxWait, wUp, wCtxDone>>
    /\ UNCHANGED notWait

\* time.Sleep(100 * time.Millisecond)
WaitSleep ==
    /\ wpc = "sleep"
    /\ wNow' = wNow + PollTicks
    /\ wpc' = "loop"
    /\ UNCHANGED <<wMaxWait, wUp, wCtxDone, wDials, wDialsAfterCancel,
                   wConnected, wRes>>
    /\ UNCHANGED notWait

\* the browser opens its port
EndpointUp ==
    /\ wpc \in {"loop", "sleep"}
    /\ ~wUp
    /\ wUp' = TRUE
    /\ UNCHANGED <<wpc, wMaxWait, wNow, wCtxDone, wDials, wDialsAfterCancel,
                   wConnected, wRes>>
    /\ UNCHANGED notWait

\* the caller cancels the context given to WaitForWS
WaitCancel ==
    /\ wpc \in {"loop", "sleep"}
    /\ ~wCtxDone
    /\ wCtxDone' = TRUE
    /\ UNCHANGED <<wpc, wMaxWait, wNow, wUp, wDials, wDialsAfterCancel,
                   wConnected, wRes>>
    /\ UNCHANGED notWait

(***************************************************************************)
(* logic.fetchContentForResults: the calling goroutine admits one goroutine *)
(* per item through a buffered channel used as a counting semaphore, then  *)
(* fills the channel to wait for them.  All goroutines drive the one tab   *)
(* of the browser context they were given.  A string is a sequence of      *)
(* bytes.                                                                  *)
(***************************************************************************)
\* the largest number of results
MaxItems == 3
\* the largest maxConcurrent
MaxConcurrent == 2

\* len(content) > 2000, content[:2000]
ContentCap == 2000
\* "..."
Marker == <<46, 46, 46>>

Items == 1..MaxItems

\* the lengths of the body text a page may have when a fetch reads it (the
\* texts near the cap are those of TruncateContent below)
BodyLens == {0, 1}

NoPage == <<>>
Link(i) == <<"link", i>>

\* models.SearchResult as extractSearchResults makes it: Content is empty
SearchResult(i) ==
    [Title |-> <<"title", i>>, Link |-> Link(i), Snippet |-> <<"snippet", i>>,
     Content |-> <<>>]

\* document.body.innerText of the page at a link, n bytes long; a tab that
\* shows no page has no text
Body(pg, n) == IF pg = NoPage THEN <<>> ELSE [k \in 1..n |-> 96 + pg[2]]

\* a truncation that also cuts content of exactly the cap
TruncateAtCap(text) ==
    IF Len(text) >= ContentCap
    THEN SubSeq(text, 1, ContentCap) \o Marker
    ELSE text

\* if len(content) > 2000 { content = content[:2000] + "..." }
Truncate(text) ==
    IF Len(text) > ContentCap
    THEN SubSeq(text, 1, ContentCap) \o Marker
    ELSE text

\* a channel that takes a value whatever it holds
CanSendAlways(n, capacity) == TRUE

\* semaphore <- struct{}{} proceeds when the buffer has room (with capacity
\* 0 it needs a receiver, and a goroutine receives only when it holds a
\* value it has sent for)
CanSend(n, capacity) == n < capacity

\* a drain loop that stops one send short
DrainSendsShort(capacity) == capacity - 1

\* for i := 0; i < cap(semaphore); i++
DrainSends(capacity) == capacity

\* a failure that drops what the other fetches stored
ResultsAfterErrorCleared(idx) ==
    [j \in DOMAIN results |-> [results[j] EXCEPT !.Content = <<>>]]

\* if err != nil { log.Printf(...); return }
ResultsAfterError(idx) == results

\* the goroutines that hold a place in the semaphore
Active == {i \in Items : gpc[i] \in {"navigate", "wait", "eval", "release"}}

\* fetchContentForResults(ctx, results, maxConcurrent) is called
FetchStart(m, c) ==
    /\ fpc = "idle"
    /\ fpc' = IF m = 0 THEN "drain" ELSE "admit"
    /\ fCap' = c
    /\ fI' = 1
    /\ results' = [i \in 1..m |-> SearchResult(i)]
    /\ UNCHANGED <<fD, fSem, gpc, gErr, content, page, fErr>>
    /\ UNCHANGED notFetch

\* semaphore <- struct{}{}; go func(idx int) {...}(i)
FetchAdmit ==
    /\ fpc = "admit"
    /\ CanSend(fSem, fCap)
    /\ fSem' = fSem + 1
    /\ gpc' = [gpc EXCEPT ![fI] = "navigate"]
    /\ fI' = fI + 1
    /\ fpc' = IF fI = Len(results) THEN "drain" ELSE "admit"
    /\ UNCHANGED <<fCap, fD, gErr, content, page, results, fErr>>
    /\ UNCHANGED notFetch

\* chromedp.Run returned a non-nil error: the warning is logged, the
\* goroutine returns and its deferred function is left to run
FetchError(idx) ==
    /\ gpc' = [gpc EXCEPT ![idx] = "release"]
    /\ gErr' = [gErr EXCEPT ![idx] = TRUE]
    /\ results' = ResultsAfterError(idx)

\* chromedp.Navigate(results[idx].Link)
FetchNavigate(idx) ==
    /\ gpc[idx] = "navigate"
    /\ \/ /\ page' = results[idx].Link
          /\ gpc' = [gpc EXCEPT ![idx] = "wait"]
          /\ UNCHANGED <<gErr, results>>
       \/ /\ page' \in {page, NoPage}
          /\ FetchError(idx)
    /\ UNCHANGED <<fpc, fCap, fI, fD, fSem, content, fErr>>
    /\ UNCHANGED notFetch

\* chromedp.WaitVisible("body", chromedp.BySearch)
FetchWaitVisible(idx) ==
    /\ gpc[idx] = "wait"
    /\ \/ /\ gpc' = [gpc EXCEPT ![idx] = "eval"]
          /\ UNCHANGED <<gErr, results>>
       \/ FetchError(idx)
    /\ UNCHANGED <<fpc, fCap, fI, fD, fSem, content, page, fErr>>
    /\ UNCHANGED notFetch

\* chromedp.Evaluate("document.body.innerText", &content, ...), the
\* truncation and results[idx].Content = content
FetchEvaluate(idx) ==
    /\ gpc[idx] = "eval"
    /\ \/ \E n \in BodyLens :
             /\ content' = [content EXCEPT ![idx] = Body(page, n)]
             /\ results' = [results EXCEPT
                                ![idx].Content = Truncate(content'[idx])]
             /\ gpc' = [gpc EXCEPT ![idx] = "release"]
             /\ UNCHANGED gErr
       \/ FetchError(idx) /\ UNCHANGED content
    /\ UNCHANGED <<fpc, fCap, fI, fD, fSem, page, fErr>>
    /\ UNCHANGED notFetch

\* defer func() { <-semaphore }()
FetchRelease(idx) ==
    /\ gpc[idx] = "release"
    /\ fSem > 0
    /\ fSem' = fSem - 1
    /\ gpc' = [gpc EXCEPT ![idx] = "exited"]
    /\ UNCHANGED <<fpc, fCap, fI, fD, gErr, content, page, results, fErr>>
    /\ UNCHANGED notFetch

\* the drain loop: semaphore <- struct{}{}, cap(semaphore) times
FetchDrain ==
    /\ fpc = "drain"
    /\ fD < DrainSends(fCap)
    /\ CanSend(fSem, fCap)
    /\ fSem' = fSem + 1
    /\ fD' = fD + 1
    /\ UNCHANGED <<fpc, fCap, fI, gpc, gErr, content, page, results, fErr>>
    /\ UNCHANGED notFetch

\* return results, nil
FetchReturn ==
    /\ fpc = "drain"
    /\ fD >= DrainSends(fCap)
    /\ fpc' = "done"
    /\ fErr' = "nil"
    /\ UNCHANGED <<fCap, fI, fD, fSem, gpc, gErr, content, page, results>>
    /\ UNCHANGED notFetch

(***************************************************************************)
(* The truncation on its own, over texts whose length is near 0 and near   *)
(* the cap.                                                                *)
(***************************************************************************)
\* how far from 0 and from the cap the lengths of the texts go
MaxSlack == 3
\* how many different bytes a text is made of
MaxBytes == 5

TextLens == (0..MaxSlack) \cup ((ContentCap - MaxSlack)..(ContentCap + MaxSlack))

\* a text of n bytes that repeats `period` bytes from `first` on
Text(n, first, period) == [k \in 1..n |-> first + (k % period)]

\* content = <text>; the truncation; results[idx].Content = content
TruncateContent(n, first, period) ==
    /\ xText' = Text(n, first, period)
    /\ xStored' = Truncate(xText')
    /\ UNCHANGED notTrunc

(***************************************************************************)
(* logic.extractSearchResults and tryExtractOneStrategy.  A selector is    *)
(* its place in its candidate list; the page is what it answers to each    *)
(* call: the nodes the item selector finds and, for each node, what the    *)
(* extraction script gives.                                                *)
(***************************************************************************)
\* the longest candidate list
MaxSelectors == 2
\* the most nodes an item selector finds
MaxNodes == 2

Nodes == 1..MaxNodes

\* what the page gives for one node: the evaluation fails, or it gives a
\* title, a link and a snippet, each of which may be empty
NodeKinds == {"evalErr", "noTitle", "noLink", "noSnippet", "full"}

\* what the page answers to one strategy: chromedp.Nodes fails, or it finds
\* the nodes of `nodes` (in document order), of the kinds `kind` (a node
\* that is not found has the kind "full", so that answers differ only in
\* the nodes found)
Answers ==
    {[runErr |-> TRUE, nodes |-> {}, kind |-> [n \in Nodes |-> "full"]]} \cup
    {a \in [runErr : {FALSE}, nodes : SUBSET Nodes,
             kind : [Nodes -> NodeKinds]] :
        \A n \in Nodes \ a.nodes : a.kind[n] = "full"}

ErrFindItems == [msg |-> "failed to find result items", field |-> "ResultItem"]
ErrNoValid == [msg |-> "no valid results extracted", field |-> ""]
ErrNil == [msg |-> "", field |-> ""]

\* the record made from node n under strategy st
Extracted(st, n, kd) ==
    [Title |-> <<"title", n, st.item, st.title>>,
     Link |-> <<"href", n, st.item>>,
     Snippet |-> IF kd = "noSnippet" THEN <<>>
                 ELSE <<"snippet", n, st.item, st.snippet>>]

\* the loop over items: an evaluation error skips the node, a record is
\* appended when title and link are both non-empty
RECURSIVE ExtractLoop(_, _, _, _)
ExtractLoop(st, a, n, acc) ==
    IF n > MaxNodes THEN acc
    ELSE IF n \in a.nodes /\ a.kind[n] \in {"noSnippet", "full"}
         THEN ExtractLoop(st, a, n + 1, Append(acc, Extracted(st, n, a.kind[n])))
         ELSE ExtractLoop(st, a, n + 1, acc)

\* tryExtractOneStrategy(ctx, itemSel, titleSel, snippetSel)
tryExtractOneStrategy(st, a) ==
    IF a.runErr \/ a.nodes = {}
    THEN [results |-> <<>>, err |-> ErrFindItems]
    ELSE LET rs == ExtractLoop(st, a, 1, <<>>)
         IN  IF Len(rs) = 0
             THEN [results |-> <<>>, err |-> ErrNoValid]
             ELSE [results |-> rs, err |-> ErrNil]

\* how many times the body of the innermost loop runs
StrategyCount(sel) == sel.ResultItem * sel.Title * sel.Snippet

\* loops nested with the snippet selectors outermost
StrategySnippetOuter(sel, k) ==
    [snippet |-> ((k - 1) \div (sel.ResultItem * sel.Title)) + 1,
     title |-> (((k - 1) \div sel.ResultItem) % sel.Title) + 1,
     item |-> ((k - 1) % sel.ResultItem) + 1]

\* the k-th strategy of for item { for title { for snippet { ... } } }
Strategy(sel, k) ==
    [item |-> ((k - 1) \div (sel.Title * sel.Snippet)) + 1,
     title |-> (((k - 1) \div sel.Snippet) % sel.Title) + 1,
     snippet |-> ((k - 1) % sel.Snippet) + 1]

\* fmt.Errorf("all selector strategies failed: %w", lastErr)
ErrAllFailed(last) ==
    [msg |-> "all selector strategies failed", wraps |-> last.msg,
     field |-> last.field]

NoExtract == [results |-> <<>>, err |-> ErrNil]

\* extractSearchResults(ctx, selectors) is called
ExtractStart(ni, nt, ns) ==
    /\ epc = "idle"
    /\ epc' = "loop"
    /\ selectors' = [ResultItem |-> ni, Title |-> nt, Snippet |-> ns]
    /\ UNCHANGED <<eK, eTried, eLastErr, eRes>>
    /\ UNCHANGED notExtract

\* one run of the innermost loop body
ExtractTry(a) ==
    /\ epc = "loop"
    /\ eK < StrategyCount(selectors)
    /\ LET st == Strategy(selectors, eK + 1)
           out == tryExtractOneStrategy(st, a)
       IN  /\ eTried' = Append(eTried, st)
           /\ eK' = eK + 1
           /\ IF out.err = ErrNil /\ Len(out.results) > 0
              THEN /\ epc' = "done"
                   /\ eRes' = [results |-> out.results, err |-> ErrNil]
                   /\ UNCHANGED eLastErr
              ELSE /\ eLastErr' = out.err
                   /\ UNCHANGED <<epc, eRes>>
    /\ UNCHANGED selectors
    /\ UNCHANGED notExtract

\* the loops have ended: return nil, fmt.Errorf(...)
ExtractExhausted ==
    /\ epc = "loop"
    /\ eK >= StrategyCount(selectors)
    /\ epc' = "done"
    /\ eRes' = [results |-> <<>>, err |-> ErrAllFailed(eLastErr)]
    /\ UNCHANGED <<selectors, eK, eTried, eLastErr>>
    /\ UNCHANGED notExtract

(***************************************************************************)
(* The action commands: cobra runs the command's PersistentPreRun hook,    *)
(* its Run or RunE function and, when that returned without error, its     *)
(* PersistentPostRun hook; Execute exits with ExitError when the command   *)
(* returned an error.                                                      *)
(***************************************************************************)
ActionCommands ==
    {"navigate", "screenshot", "pick", "eval", "cookies", "search", "content",
     "hn-scraper"}

\* the commands written with Run and those written with RunE
RunCommands == {"navigate", "screenshot", "pick", "eval", "cookies"}
RunECommands == ActionCommands

\* the commands that write a result with prettyPrintResults
PrintingCommands ==
    {"pick", "eval", "cookies", "search", "content", "hn-scraper"}

\* the RunE commands that defer bc.cancel()
CancellingCommands == {"navigate", "screenshot"}

\* the process ends: os.Exit, or main returns
CmdExit(code) ==
    /\ cpc' = "exited"
    /\ cExit' = code

\* cancel() of the browserCtx the command's context holds
CmdCancel(by) ==
    /\ cTmp' = IF cCtx = "temporary" /\ cTmp = "live" THEN "released" ELSE cTmp
    /\ cTmpBy' = IF cCtx = "temporary" /\ cTmp = "live" THEN by ELSE cTmpBy
    /\ cPers' = IF cCtx = "persistent" /\ cPers = "live" THEN "released"
                ELSE cPers

\* the command line names an action command
CmdInvoke(name, style, record, placed) ==
    /\ cpc = "idle"
    /\ name \in (IF style = "Run" THEN RunCommands ELSE RunECommands)
    /\ cpc' = "prerun"
    /\ cName' = name
    /\ cStyle' = style
    /\ cRecord' = record
    /\ cPlaced' = placed
    /\ cCtx' = IF placed THEN "temporary" ELSE "none"
    /\ cTmp' = IF placed THEN "live" ELSE "none"
    /\ UNCHANGED <<cAnnot, cAttached, cTmpBy, cPers, cLogic, cOut, cExit>>
    /\ UNCHANGED notCmd

\* persistentPreRun: NewPersistentContext; its error goes to the command's
\* annotations, its context on the command's context
persistentPreRun ==
    /\ IF cRecord
       THEN /\ cAttached' = TRUE
            /\ cPers' = "live"
            /\ cCtx' = "persistent"
            /\ UNCHANGED cAnnot
       ELSE /\ cAnnot' = TRUE
            /\ UNCHANGED <<cAttached, cCtx, cPers>>

CmdPreRun ==
    /\ cpc = "prerun"
    /\ persistentPreRun
    /\ cpc' = "run"
    /\ UNCHANGED <<cName, cStyle, cRecord, cPlaced, cTmp, cTmpBy, cLogic, cOut,
                   cExit>>
    /\ UNCHANGED notCmd

\* Run: if handleCmdErr(cmd) { return }
RunAfterPreRunErr == cpc' = "postrun" /\ UNCHANGED cExit

\* handleCmdErr(cmd) is true: the error is logged; Run returns, RunE returns
\* an error, for which Execute exits with ExitError
CmdRunAborts ==
    /\ cpc = "run"
    /\ cAnnot
    /\ IF cStyle = "Run" THEN RunAfterPreRunErr ELSE CmdExit(ExitError)
    /\ UNCHANGED <<cName, cStyle, cRecord, cPlaced, cAnnot, cAttached, cCtx,
                   cTmp, cTmpBy, cPers, cLogic, cOut>>
    /\ UNCHANGED notCmd

\* the command's logic runs on the browserCtx of the command.  When it
\* fails, Run ends the process with log.Fatalf and RunE returns the error;
\* when it succeeds the result, if the command has one, is printed.  RunE
\* of navigate and screenshot has deferred bc.cancel().
CmdRunLogic(ok) ==
    /\ cpc = "run"
    /\ ~cAnnot
    /\ cLogic' = TRUE
    /\ cOut' = IF ok /\ cName \in PrintingCommands THEN cOut + 1 ELSE cOut
    /\ IF cStyle = "RunE" /\ cName \in CancellingCommands
       THEN CmdCancel("command")
       ELSE UNCHANGED <<cTmp, cTmpBy, cPers>>
    /\ IF ok THEN cpc' = "postrun" /\ UNCHANGED cExit ELSE CmdExit(ExitError)
    /\ UNCHANGED <<cName, cStyle, cRecord, cPlaced, cAnnot, cAttached, cCtx>>
    /\ UNCHANGED notCmd

\* persistentPostRun: cancel the browserCtx of the command, if any
CmdPostRun ==
    /\ cpc = "postrun"
    /\ IF cCtx # "none"
       THEN CmdCancel("command")
       ELSE UNCHANGED <<cTmp, cTmpBy, cPers>>
    /\ IF cPlaced THEN cpc' = "outer" /\ UNCHANGED cExit
       ELSE CmdExit(ExitSuccess)
    /\ UNCHANGED <<cName, cStyle, cRecord, cPlaced, cAnnot, cAttached, cCtx,
                   cLogic, cOut>>
    /\ UNCHANGED notCmd

\* the PersistentPostRun of run: cancel the temporary context it made
CmdOuterPostRun ==
    /\ cpc = "outer"
    /\ cTmp' = "released"
    /\ cTmpBy' = IF cTmp = "live" THEN "run" ELSE cTmpBy
    /\ CmdExit(ExitSuccess)
    /\ UNCHANGED <<cName, cStyle, cRecord, cPlaced, cAnnot, cAttached, cCtx,
                   cPers, cLogic, cOut>>
    /\ UNCHANGED notCmd


(***************************************************************************)
(* utils.DefaultIsRetryable: keyword classification of an error message    *)
(***************************************************************************)
MaxWords == 3

\* an error message is a sequence of words; a keyword is a run of words
Words == {"timeout", "Timeout", "network", "NETWORK", "not", "Not", "found",
          "context", "canceled", "Canceled", "busy", "some", "error",
          "connection", "refused"}

RECURSIVE SeqsUpTo(_, _)
SeqsUpTo(S, n) ==
    IF n = 0 THEN {<<>>}
    ELSE LET shorter == SeqsUpTo(S, n - 1)
         IN  shorter \cup {Append(q, w) : q \in {r \in shorter : Len(r) = n - 1},
                                          w \in S}

Messages == SeqsUpTo(Words, MaxWords)

NilError == [nil |-> TRUE, msg |-> <<>>]
Errors == {NilError} \cup [nil : {FALSE}, msg : Messages]

\* strings.ToLower, word by word
ToLowerWord(w) ==
    CASE w = "Timeout" -> "timeout"
      [] w = "NETWORK" -> "network"
      [] w = "Not" -> "not"
      [] w = "Canceled" -> "canceled"
      [] OTHER -> w

ToLower(m) == [i \in 1..Len(m) |-> ToLowerWord(m[i])]

\* strings.Contains
Contains(m, kw) ==
    \E i \in 0..(Len(m) - Len(kw)) : SubSeq(m, i + 1, i + Len(kw)) = kw

nonRetryable ==
    << <<"context", "canceled">>,
       <<"context", "deadline", "exceeded">>,
       <<"invalid", "argument">>,
       <<"not", "found">>,
       <<"forbidden">>,
       <<"unauthorized">> >>

retryable ==
    << <<"timeout">>,
       <<"connection", "refused">>,
       <<"no", "such", "host">>,
       <<"network">>,
       <<"temporary">>,
       <<"busy">>,
       <<"overloaded">> >>

\* the retryable list consulted before the non-retryable one
DefaultIsRetryableRetryableFirst(err) ==
    IF err.nil THEN FALSE
    ELSE LET errMsg == err.msg
         IN  IF \E i \in 1..Len(retryable) :
                    Contains(ToLower(errMsg), retryable[i])
             THEN TRUE
             ELSE FALSE
DefaultIsRetryable(err) ==
    IF err.nil THEN FALSE
    ELSE LET errMsg == err.msg
         IN  IF \E i \in 1..Len(nonRetryable) :
                    Contains(ToLower(errMsg), nonRetryable[i])
             THEN FALSE
             ELSE IF \E i \in 1..Len(retryable) :
                         Contains(ToLower(errMsg), retryable[i])
                  THEN TRUE
                  ELSE FALSE

ClassifyApply(err) ==
    /\ dpc = "idle"
    /\ dErr' = err
    /\ dRes' = DefaultIsRetryable(err)
    /\ dpc' = "done"
    /\ UNCHANGED notClassify


(***************************************************************************)
(* logic.EnhancedHnScraper: navigation, then the loop over FallbackWait    *)
(***************************************************************************)
MaxWaitSelectors == 3

WaitSelectors == 1..MaxWaitSelectors

NoWaitErr == [selector |-> 0]
\* the error chromedp.Run returns for a selector that never shows
WaitVisibleErr(sel) == [selector |-> sel]

\* err == nil: break, waitErr as it was; otherwise waitErr = err
WaitErrAfter(k, prev) ==
    IF hWait[k] \in hVisible THEN prev ELSE WaitVisibleErr(hWait[k])

\* FetchWithRetry(ctx, hnURL, 3), with the selectors of the configuration
HnStart(n, visible, navOk) ==
    /\ hpc = "idle"
    /\ hWait' = [k \in 1..n |-> k]
    /\ hVisible' = visible
    /\ hK' = 0
    /\ waitErr' = NoWaitErr
    /\ IF navOk
       THEN hpc' = "wait" /\ hRes' = hRes
       ELSE hpc' = "done" /\ hRes' = "navigate_failed"
    /\ UNCHANGED notHnWait

\* one iteration of the range loop
HnWaitVisible ==
    /\ hpc = "wait"
    /\ hK < Len(hWait)
    /\ hK' = hK + 1
    /\ waitErr' = WaitErrAfter(hK + 1, waitErr)
    /\ hpc' = IF hWait[hK + 1] \in hVisible THEN "check" ELSE "wait"
    /\ UNCHANGED <<hWait, hVisible, hRes>>
    /\ UNCHANGED notHnWait

\* the range is exhausted
HnWaitExhausted ==
    /\ hpc = "wait"
    /\ hK = Len(hWait)
    /\ hpc' = "check"
    /\ UNCHANGED <<hWait, hVisible, hK, waitErr, hRes>>
    /\ UNCHANGED notHnWait

\* if waitErr != nil { return nil, ... }; return extractHnData(...)
HnCheck ==
    /\ hpc = "check"
    /\ hRes' = IF waitErr # NoWaitErr THEN "wait_failed" ELSE "extract"
    /\ hpc' = "done"
    /\ UNCHANGED <<hWait, hVisible, hK, waitErr>>
    /\ UNCHANGED notHnWait


(***************************************************************************)
(* logic.Search: three document-wide queries zipped by index               *)
(***************************************************************************)
MaxContainers == 2

\* a result-item container of the page: whether it holds an element the
\* title selector matches, what its anchor points at ("google": an href the
\* link filter drops; "dead": an external page that cannot be fetched), and
\* whether it holds an element the snippet selector matches
Containers ==
    [title : BOOLEAN, link : {"google", "ext", "dead"}, snippet : BOOLEAN]

ResultPages == UNION {[1..n -> Containers] : n \in 0..MaxContainers}

Indexes(pg) == [n \in 1..Len(pg) |-> n]

\* el.innerText / a.href of the element of container n
InnerText(n, field) == [item |-> n, field |-> field, trimmed |-> FALSE]
Href(n) == [item |-> n, field |-> "href", trimmed |-> TRUE]

\* strings.TrimSpace
TrimSpace(t) == [t EXCEPT !.trimmed = TRUE]

\* Array.from(document.querySelectorAll(sel.Title)).map(el => el.innerText)
TitleTexts(pg) ==
    LET hit == SelectSeq(Indexes(pg), LAMBDA n : pg[n].title)
    IN  [k \in 1..Len(hit) |-> InnerText(hit[k], "title")]

\* ... .filter(a => a.href.startsWith('http') &&
\*              !a.href.includes('google.com')).map(a => a.href)
LinkHrefs(pg) ==
    LET hit == SelectSeq(Indexes(pg), LAMBDA n : pg[n].link # "google")
    IN  [k \in 1..Len(hit) |-> Href(hit[k])]

SnippetTexts(pg) ==
    LET hit == SelectSeq(Indexes(pg), LAMBDA n : pg[n].snippet)
    IN  [k \in 1..Len(hit) |-> InnerText(hit[k], "snippet")]

MinOf(a, b) == IF a < b THEN a ELSE b

\* minLen: the shortest of the three lists, numResults when that is smaller
SearchMinLen(titles, links, snippets, numResults) ==
    LET m == MinOf(Len(titles), MinOf(Len(links), Len(snippets)))
    IN  IF numResults > 0 /\ numResults < m THEN numResults ELSE m

\* the content loop of Search: a page that cannot be fetched is skipped
SearchContent(pg, fetchContent, href) ==
    IF fetchContent /\ pg[href.item].link = "ext"
    THEN Truncate(Body(Link(href.item), 1))
    ELSE <<>>

\* results[i] = models.SearchResult{...}
SearchResults(pg, titles, links, snippets, numResults, fetchContent) ==
    [i \in 1..SearchMinLen(titles, links, snippets, numResults) |->
        [Title |-> TrimSpace(titles[i]),
         Link |-> links[i],
         Snippet |-> TrimSpace(snippets[i]),
         Content |-> SearchContent(pg, fetchContent, links[i])]]

\* errAt: which of the three Evaluate actions failed (0: none); chromedp.Run
\* stops at the first failing action, the lists after it stay nil
Search(pg, numResults, fetchContent, navOk, errAt, fallbackOk) ==
    /\ qpc = "idle"
    /\ qpc' = "done"
    /\ qPage' = pg
    /\ qNum' = numResults
    /\ IF ~navOk
       THEN qRes' = <<>> /\ qErr' = "navigate"
       ELSE IF errAt = 0
       THEN /\ qRes' = SearchResults(pg, TitleTexts(pg), LinkHrefs(pg),
                                     SnippetTexts(pg), numResults,
                                     fetchContent)
            /\ qErr' = "nil"
       ELSE IF ~fallbackOk
       THEN qRes' = <<>> /\ qErr' = "titles"
       ELSE /\ qRes' = SearchResults(pg, TitleTexts(pg),
                                     IF errAt > 2 THEN LinkHrefs(pg) ELSE <<>>,
                                     <<>>, numResults, fetchContent)
            /\ qErr' = "nil"
    /\ UNCHANGED notSearch


(***************************************************************************)
(* logic.HnScraper and logic.extractHnData: per-field lists zipped by index*)
(***************************************************************************)
MaxMatches == 2

HnFields == {"titles", "urls", "scores", "authors", "times", "comments"}
MatchCounts == [HnFields -> 0..MaxMatches]
HnLimits == -1..(MaxMatches + 1)

\* el.textContent of the k-th element a selector matches; the texts of
\* scores and comments hold a number
TextContent(field, k) == [field |-> field, k |-> k, digits |-> 10 * k]

\* the list an Evaluate fills: one text per matching element
Texts(counts, field) == [k \in 1..counts[field] |-> TextContent(field, k)]

\* strconv.Atoi(rePoints.FindString(text)), the error dropped
AtoiDigits(text) == text.digits

\* utils.Min
Min(a, b) == IF a < b THEN a ELSE b

\* HnScraper: minLen := len(titles); if limit > 0 && limit < minLen {...}
HnMinLen(counts, limit) ==
    IF limit > 0 /\ limit < counts.titles THEN limit ELSE counts.titles

\* extractHnData: minLen := utils.Min(len(titles), limit);
\* if limit <= 0 || limit > len(titles) { minLen = len(titles) }
extractMinLen(counts, limit) ==
    IF limit <= 0 \/ limit > counts.titles
    THEN counts.titles
    ELSE Min(counts.titles, limit)

\* the guarded fields: if i < len(xs) { ... xs[i] ... }, else the zero value
Guarded(counts, field, i, zero) ==
    IF i <= counts[field] THEN TextContent(field, i) ELSE zero

GuardedNumber(counts, field, i) ==
    IF i <= counts[field] THEN AtoiDigits(TextContent(field, i)) ELSE 0

NoText == [field |-> "", k |-> 0, digits |-> 0]

\* the submission HnScraper appends for index i (1-based here); urls[i] and
\* timeTexts[i] are read without a length test
HnSubmission(counts, i) ==
    [ID |-> i,
     Title |-> Texts(counts, "titles")[i],
     URL |-> Texts(counts, "urls")[i],
     Points |-> GuardedNumber(counts, "scores", i),
     Author |-> Guarded(counts, "authors", i, NoText),
     Time |-> Texts(counts, "times")[i],
     Comments |-> GuardedNumber(counts, "comments", i)]

\* an index expression of HnScraper is out of range for some i it reaches
HnOutOfRange(counts, limit) ==
    \E i \in 1..HnMinLen(counts, limit) :
        i > counts.urls \/ i > counts.times

\* the submission extractHnData appends: the time is guarded too
extractSubmission(counts, i) ==
    [ID |-> i,
     Title |-> Texts(counts, "titles")[i],
     URL |-> Texts(counts, "urls")[i],
     Points |-> GuardedNumber(counts, "scores", i),
     Author |-> Guarded(counts, "authors", i, NoText),
     Time |-> Guarded(counts, "times", i, NoText),
     Comments |-> GuardedNumber(counts, "comments", i)]

HnCall(fn, counts, limit) ==
    /\ npc = "idle"
    /\ npc' = "done"
    /\ nFn' = fn
    /\ nCounts' = counts
    /\ nLimit' = limit

\* logic.HnScraper(ctx, limit)
HnScraper(counts, limit, navOk, evalOk) ==
    /\ HnCall("HnScraper", counts, limit)
    /\ IF ~navOk THEN nRes' = <<>> /\ nErr' = "navigate"
       ELSE IF ~evalOk THEN nRes' = <<>> /\ nErr' = "extract"
       ELSE IF HnOutOfRange(counts, limit)
       THEN nRes' = <<>> /\ nErr' = "panic"
       ELSE /\ nRes' = [i \in 1..HnMinLen(counts, limit) |->
                           HnSubmission(counts, i)]
            /\ nErr' = "nil"
    /\ UNCHANGED notHn

\* logic.extractHnData(ctx, limit, selectors): the script pushes a title and
\* a url for each title link, so the two lists have one length
extractHnData(counts, limit, evalOk) ==
    /\ counts.urls = counts.titles
    /\ HnCall("extractHnData", counts, limit)
    /\ IF ~evalOk THEN nRes' = <<>> /\ nErr' = "extract"
       ELSE /\ nRes' = [i \in 1..extractMinLen(counts, limit) |->
                           extractSubmission(counts, i)]
            /\ nErr' = "nil"
    /\ UNCHANGED notHn

(***************************************************************************)
(* Initial states, next-state relations, specifications                    *)
(***************************************************************************)
RunInit ==
    /\ rpc = "idle"
    /\ rVariant = ""
    /\ rSub = ""
    /\ rArgs = 0
    /\ tmpCtx = "none"
    /\ tmpProc = "none"
    /\ rExit = -1

RetryInit ==
    /\ tpc = "idle"
    /\ cfg = [MaxAttempts |-> 0, InitialBackoff |-> 0, MaxBackoff |-> 0,
              BackoffMultiplier |-> 0, hasOnRetry |-> FALSE]
    /\ script = [fails |-> 0, then |-> "ok"]
    /\ attempt = 0
    /\ calls = 0
    /\ lastErr = NoErr
    /\ onRetryLog = <<>>
    /\ sleeps = <<>>
    /\ curBackoff = 0
    /\ ctxDone = FALSE
    /\ cancelAt = NotCancelled
    /\ tRes = NoResult

WaitInit ==
    /\ wpc = "idle"
    /\ wMaxWait = 0
    /\ wNow = 0
    /\ wUp = FALSE
    /\ wCtxDone = FALSE
    /\ wDials = 0
    /\ wDialsAfterCancel = 0
    /\ wConnected = FALSE
    /\ wRes = "none"

FetchInit ==
    /\ fpc = "idle"
    /\ fCap = 0
    /\ fI = 0
    /\ fD = 0
    /\ fSem = 0
    /\ gpc = [i \in Items |-> "none"]
    /\ gErr = [i \in Items |-> FALSE]
    /\ content = [i \in Items |-> <<>>]
    /\ page = NoPage
    /\ results = <<>>
    /\ fErr = "none"

TruncInit ==
    /\ xText = <<>>
    /\ xStored = <<>>

ExtractInit ==
    /\ epc = "idle"
    /\ selectors = [ResultItem |-> 0, Title |-> 0, Snippet |-> 0]
    /\ eK = 0
    /\ eTried = <<>>
    /\ eLastErr = ErrNil
    /\ eRes = NoExtract

CmdInit ==
    /\ cpc = "idle"
    /\ cName = ""
    /\ cStyle = ""
    /\ cRecord = FALSE
    /\ cPlaced = FALSE
    /\ cAnnot = FALSE
    /\ cAttached = FALSE
    /\ cCtx = "none"
    /\ cTmp = "none"
    /\ cTmpBy = "none"
    /\ cPers = "none"
    /\ cLogic = FALSE
    /\ cOut = 0
    /\ cExit = -1


ClassifyInit ==
    /\ dpc = "idle"
    /\ dErr = NilError
    /\ dRes = FALSE


HnWaitInit ==
    /\ hpc = "idle"
    /\ hWait = <<>>
    /\ hVisible = {}
    /\ hK = 0
    /\ waitErr = NoWaitErr
    /\ hRes = "none"


SearchInit ==
    /\ qpc = "idle"
    /\ qPage = <<>>
    /\ qNum = 0
    /\ qRes = <<>>
    /\ qErr = "nil"


HnInit ==
    /\ npc = "idle"
    /\ nFn = "none"
    /\ nCounts = [f \in HnFields |-> 0]
    /\ nLimit = 0
    /\ nRes = <<>>
    /\ nErr = "nil"

Init ==
    /\ SessionInit /\ RunInit /\ RetryInit /\ WaitInit /\ FetchInit
    /\ TruncInit /\ ExtractInit /\ CmdInit /\ ClassifyInit /\ HnWaitInit /\ SearchInit /\ HnInit

RetryNext ==
    \/ \E c \in RetryConfigs, sc \in Scripts, cancelled \in BOOLEAN :
          RetryStart(c, sc, cancelled)
    \/ RetryInvoke
    \/ RetryFnReturns
    \/ RetryBackoffElapsed
    \/ RetryBackoffCanceled
    \/ CancelCtx

WaitNext ==
    \/ \E maxWait \in 0..MaxWaitTicks, cancelled \in BOOLEAN, up \in BOOLEAN :
          WaitStart(maxWait, cancelled, up)
    \/ WaitDial
    \/ WaitSleep
    \/ EndpointUp
    \/ WaitCancel

FetchNext ==
    \/ \E m \in 0..MaxItems, c \in 0..MaxConcurrent : FetchStart(m, c)
    \/ FetchAdmit
    \/ \E idx \in Items : FetchNavigate(idx)
    \/ \E idx \in Items : FetchWaitVisible(idx)
    \/ \E idx \in Items : FetchEvaluate(idx)
    \/ \E idx \in Items : FetchRelease(idx)
    \/ FetchDrain
    \/ FetchReturn

TruncNext ==
    \E n \in TextLens, first \in 97..(96 + MaxBytes), period \in 1..MaxBytes :
        TruncateContent(n, first, period)

ExtractNext ==
    \/ \E ni \in 0..MaxSelectors, nt \in 0..MaxSelectors,
          ns \in 0..MaxSelectors : ExtractStart(ni, nt, ns)
    \/ \E a \in Answers : ExtractTry(a)
    \/ ExtractExhausted

CmdNext ==
    \/ \E name \in ActionCommands, style \in {"Run", "RunE"},
          record \in BOOLEAN, placed \in BOOLEAN :
          CmdInvoke(name, style, record, placed)
    \/ CmdPreRun
    \/ CmdRunAborts
    \/ \E ok \in BOOLEAN : CmdRunLogic(ok)
    \/ CmdPostRun
    \/ CmdOuterPostRun


ClassifyNext ==
    /\ dpc = "idle"
    /\ \E err \in Errors : ClassifyApply(err)


HnWaitNext ==
    \/ \E n \in 0..MaxWaitSelectors, visible \in SUBSET WaitSelectors,
          navOk \in BOOLEAN : HnStart(n, visible, navOk)
    \/ HnWaitVisible
    \/ HnWaitExhausted
    \/ HnCheck


SearchNext ==
    /\ qpc = "idle"
    /\ \E pg \in ResultPages, numResults \in 0..MaxContainers,
          fetchContent \in BOOLEAN, navOk \in BOOLEAN, errAt \in 0..3,
          fallbackOk \in BOOLEAN :
          Search(pg, numResults, fetchContent, navOk, errAt, fallbackOk)


HnNext ==
    \/ /\ npc = "idle"
       /\ \E counts \in MatchCounts, limit \in HnLimits, navOk \in BOOLEAN,
             evalOk \in BOOLEAN : HnScraper(counts, limit, navOk, evalOk)
    \/ /\ npc = "idle"
       /\ \E counts \in MatchCounts, limit \in HnLimits, evalOk \in BOOLEAN :
             extractHnData(counts, limit, evalOk)

SpecSession == Init /\ [][SessionNext]_vars
SpecRun == Init /\ [][RunNext]_vars
SpecRetry == Init /\ [][RetryNext]_vars
SpecWait == Init /\ [][WaitNext]_vars
SpecFetch == Init /\ [][FetchNext]_vars
SpecTrunc == Init /\ [][TruncNext]_vars
SpecExtract == Init /\ [][ExtractNext]_vars
SpecCmd == Init /\ [][CmdNext]_vars
SpecClassify == Init /\ [][ClassifyNext]_vars
SpecHnWait == Init /\ [][HnWaitNext]_vars
SpecSearch == Init /\ [][SearchNext]_vars
SpecHn == Init /\ [][HnNext]_vars

(***************************************************************************)
(* Claims: session lifecycle                                               *)
(***************************************************************************)
\* C1: a Start that returns success has written the record with its endpoint
\* and the pid it spawned; a Start issued while a record exists ends at once
\* with "already running", spawns nothing and leaves the record as it was.
C1_StartRecordAndGuard ==
    [][\A i \in Starts :
          /\ (sRes[i] = "none" /\ sRes'[i] = "ok") =>
                /\ file' = WsInfo(WsURL(sPort[i]), sPid[i])
                /\ file' # NoRecord
                /\ sPid[i] \in Pids
                /\ procs[sPid[i]].port = sPort[i]
          /\ (spc[i] = "idle" /\ spc'[i] # "idle" /\ file # NoRecord) =>
                /\ spc'[i] = "done"
                /\ sRes'[i] = "already_running"
                /\ sPid'[i] = 0
                /\ procs' = procs
                /\ nextPid' = nextPid
                /\ file' = file]_vars

C1_Witness ==
    \E i \in Starts, j \in Starts :
        /\ sRes[i] = "ok"
        /\ sRes[j] = "already_running"
        /\ file = WsInfo(WsURL(sPort[i]), sPid[i])

C3_CloseAlwaysRemoves ==
    [][/\ (Close /\ file # NoRecord) => file' = NoRecord
       /\ (NewPersistentContext /\ file = NoRecord) =>
             (attachRes' = "not_running" /\ pctx' = pctx)]_vars

\* C3 (amended): Close on an existing record fails only when removing the
\* record file itself fails (the record then stays); otherwise it returns
\* success with the record gone, whether or not the process was found or
\* signalled; an attach finding no record fails with "not running" and
\* yields no context.
C3_CloseRemovesUnlessRemoveFails ==
    [][/\ (Close /\ file # NoRecord) =>
             \/ closeRes' = "ok" /\ file' = NoRecord
             \/ closeRes' = "remove_failed" /\ file' = file
       /\ (NewPersistentContext /\ file = NoRecord) =>
             (attachRes' = "not_running" /\ pctx' = pctx)]_vars

\* the recorded browser had exited by itself, was never signalled, and Close
\* removed the record all the same; the attach after it failed
C3_Witness ==
    \E i \in Starts :
        /\ sRes[i] = "ok"
        /\ procs[sPid[i]].st = "dead"
        /\ procs[sPid[i]].sigs = {}
        /\ closeRes = "ok"
        /\ file = NoRecord
        /\ attachRes = "not_running"

(***************************************************************************)
(* Claims: the run command                                                 *)
(***************************************************************************)
\* C4: when a run invocation that started a temporary browser ends, its
\* cancel function has been called and the browser process is terminated,
\* however the subcommand ended.
C4_RunAlwaysReleases ==
    (rpc = "done" /\ tmpProc # "none") =>
        (tmpCtx = "released" /\ tmpProc = "killed")

(***************************************************************************)
(* Claims: Retry                                                           *)
(***************************************************************************)
\* C5: with the context never cancelled and 1 <= N <= MaxAttempts, Retry on
\* an operation that fails retryably N-1 times and succeeds on call N never
\* invokes it more than N times and returns nil after exactly N calls.
C5_SucceedsOnAttemptN ==
    (/\ tpc # "idle"
     /\ ~ctxDone
     /\ script.then = "ok"
     /\ cfg.MaxAttempts >= 1
     /\ script.fails + 1 <= cfg.MaxAttempts) =>
        /\ calls <= script.fails + 1
        /\ tpc = "done" => (tRes.kind = "ok" /\ calls = script.fails + 1)

C5_Witness ==
    /\ tpc = "done"
    /\ ~ctxDone
    /\ script = [fails |-> 2, then |-> "ok"]
    /\ cfg.MaxAttempts = 3
    /\ tRes.kind = "ok"
    /\ calls = 3

\* C6: an operation whose first call fails with a non-retryable error is
\* invoked once; Retry returns that very error, having slept no backoff and
\* called OnRetry never, whatever MaxAttempts and the context are.
C6_NonRetryableOnce ==
    (tpc # "idle" /\ script = [fails |-> 0, then |-> "fatal"]) =>
        /\ calls <= 1
        /\ sleeps = <<>>
        /\ onRetryLog = <<>>
        /\ tpc \in {"call", "infn", "done"}
        /\ tpc = "done" =>
              (calls = 1 /\ tRes = [kind |-> "error", err |-> Err(1, FALSE),
                                     attempts |-> 0])

C6_Witness ==
    /\ tpc = "done"
    /\ script = [fails |-> 0, then |-> "fatal"]
    /\ cfg.MaxAttempts = 3
    /\ tRes.kind = "error"
    /\ calls = 1

\* the attempt numbers 1..n, each with the error of that call
OnRetryCalls(n) == [k \in 1..n |-> [n |-> k, err |-> Err(k, TRUE)]]

\* C7: with the context never cancelled and MaxAttempts = K >= 1, an operation
\* that always fails retryably is invoked exactly K times, OnRetry (when set)
\* is called after each of the first K-1 failures with 1, .., K-1 and not
\* after the last, and Retry returns the exhaustion error that wraps the
\* error of call K and reports K attempts.
C7_ExhaustsAfterK ==
    (/\ tpc # "idle"
     /\ ~ctxDone
     /\ script.then = "retryable"
     /\ cfg.MaxAttempts >= 1) =>
        /\ calls <= cfg.MaxAttempts
        /\ tpc = "done" =>
              /\ calls = cfg.MaxAttempts
              /\ tRes = [kind |-> "exhausted",
                         err |-> Err(cfg.MaxAttempts, TRUE),
                         attempts |-> cfg.MaxAttempts]
              /\ onRetryLog = IF cfg.hasOnRetry
                              THEN OnRetryCalls(cfg.MaxAttempts - 1)
                              ELSE <<>>
              /\ Len(sleeps) = cfg.MaxAttempts - 1

C7_Witness ==
    /\ tpc = "done"
    /\ ~ctxDone
    /\ script.then = "retryable"
    /\ cfg.MaxAttempts = 3
    /\ cfg.hasOnRetry
    /\ tRes.kind = "exhausted"
    /\ Len(onRetryLog) = 2

\* C8: called with a context that is already cancelled, Retry returns an
\* error and never invokes the operation.
C8_CancelledBeforeNoCall ==
    cancelAt.at = "before" =>
        /\ calls = 0
        /\ tpc = "done" => tRes.kind # "ok"

\* C9: a context cancelled during a call that then fails retryably, or
\* during the backoff sleep, makes Retry return a cancellation error that
\* wraps ctx.Err() without invoking the operation again, also when the
\* cancelled call was the last one allowed.
C9_CancelReturnsCancellation ==
    (/\ cfg.MaxAttempts >= 1
     /\ \/ cancelAt.at = "backoff"
        \/ cancelAt.at = "infn" /\ FnResult(cancelAt.calls).retryable) =>
        /\ calls = cancelAt.calls
        /\ tpc = "done" =>
              (tRes.kind \in {"canceled", "canceled_backoff"} /\ tRes.err = CtxErr)

(***************************************************************************)
(* Claims: WaitForWS                                                       *)
(***************************************************************************)
\* C10: once the caller's context is cancelled WaitForWS makes no further
\* connection attempt: the one dial that meets the cancelled context is the
\* last.
C10_CancelStopsPolling == wDialsAfterCancel <= 1

\* C11: WaitForWS returns success only when one of its connection attempts
\* has succeeded, and returns at that first successful attempt; when none
\* succeeds it returns the timeout error, and never before maxWait has
\* elapsed since the call.
C11_ReadyOrTimeout ==
    /\ wRes = "ok" <=> wConnected
    /\ wRes = "ok" => (wpc = "done" /\ wDials >= 1 /\ wUp)
    /\ wRes = "timeout" => (wpc = "done" /\ ~wConnected /\ wNow >= wMaxWait)
    /\ wpc = "done" <=> wRes \in {"ok", "timeout"}

\* the endpoint came up after a failed attempt and before maxWait
C11_Witness ==
    /\ wRes = "ok"
    /\ wDials >= 2
    /\ ~wCtxDone
    /\ wNow < wMaxWait

(***************************************************************************)
(* Claims: fetchContentForResults                                          *)
(***************************************************************************)
\* C12: over M items with 1 <= maxConcurrent < M, at no moment do more than
\* maxConcurrent goroutines hold a place in the semaphore, so no more than
\* maxConcurrent fetches are active at once.
C12_AtMostCapActive ==
    (fpc # "idle" /\ 1 <= fCap /\ fCap < Len(results)) =>
        /\ Cardinality(Active) <= fSem
        /\ fSem <= fCap

\* maxConcurrent fetches are under way and the caller waits to admit the next
C12_Witness ==
    /\ fpc = "admit"
    /\ fCap = 2
    /\ Len(results) = 3
    /\ Cardinality({i \in Items : gpc[i] \in {"navigate", "wait", "eval"}}) = 2

\* C13: when fetchContentForResults has returned, the goroutine of every
\* item has run to its end: none is fetching and none is still to start.
C13_ReturnsAfterAll ==
    fpc = "done" => \A i \in 1..Len(results) : gpc[i] = "exited"

C13_Witness ==
    /\ fpc = "done"
    /\ Len(results) = 3
    /\ fCap = 2
    /\ \A i \in 1..3 : gpc[i] = "exited"

\* C14: a fetch that fails stores nothing: the Content of its item stays
\* empty and no other item is touched; a goroutine changes nothing but the
\* Content of its own item, and fetchContentForResults returns a nil error
\* whatever failed.
C14_FailureIsolated ==
    [][/\ \A idx \in Items :
             (~gErr[idx] /\ gErr'[idx]) =>
                 (results' = results /\ results[idx].Content = <<>>)
       /\ fpc # "idle" =>
             \A j \in 1..Len(results) :
                 results'[j] # results[j] =>
                     /\ gpc[j] = "eval" /\ gpc'[j] = "release" /\ ~gErr'[j]
                     /\ results'[j] =
                            [results[j] EXCEPT !.Content = Truncate(content'[j])]
       /\ (fpc # "done" /\ fpc' = "done") =>
             (fErr' = "nil" /\ results' = results)]_vars

\* the fetch of item 1 failed, that of item 2 stored its text, the call
\* returned nil
C14_Witness ==
    /\ fpc = "done"
    /\ fErr = "nil"
    /\ Len(results) >= 2
    /\ gErr[1] /\ results[1].Content = <<>>
    /\ ~gErr[2] /\ results[2].Content # <<>>
    /\ results[2].Content = Truncate(content[2])

\* C15: text longer than the cap is stored as its first ContentCap bytes
\* followed by "..."; text of at most ContentCap bytes is stored as it is.
C15_TruncatedAtCap ==
    IF Len(xText) > ContentCap
    THEN /\ Len(xStored) = ContentCap + 3
         /\ \A k \in 1..ContentCap : xStored[k] = xText[k]
         /\ \A k \in 1..3 : xStored[ContentCap + k] = Marker[k]
    ELSE xStored = xText

\* a text one byte over the cap has been stored
C15_Witness ==
    /\ Len(xText) = ContentCap + 1
    /\ Len(xStored) = ContentCap + 3
    /\ xText[ContentCap] # xText[ContentCap + 1]

(***************************************************************************)
(* Claims: extractSearchResults                                            *)
(***************************************************************************)
\* strategy a comes before strategy b in candidate order: item selectors
\* first, then title selectors, then snippet selectors
ComesBefore(a, b) ==
    \/ a.item < b.item
    \/ a.item = b.item /\ a.title < b.title
    \/ a.item = b.item /\ a.title = b.title /\ a.snippet < b.snippet

\* the strategies that can be made of the candidate lists
AllStrategies ==
    [item : 1..selectors.ResultItem, title : 1..selectors.Title,
     snippet : 1..selectors.Snippet]

\* C16: the strategies are tried in candidate order with none left out, and
\* while one is tried every earlier one has failed; extractSearchResults
\* returns at the first strategy that yields a result, with the results of
\* that very strategy, having tried none of the strategies after it.
C16_FirstMatchInOrder ==
    /\ \A j \in 1..Len(eTried) :
          /\ eTried[j] \in AllStrategies
          /\ Cardinality({st \in AllStrategies : ComesBefore(st, eTried[j])})
                = j - 1
    /\ (epc = "loop" /\ eTried # <<>>) => eLastErr # ErrNil
    /\ (epc = "done" /\ eRes.err = ErrNil) =>
          /\ eTried # <<>>
          /\ eRes.results # <<>>
          /\ \A k \in 1..Len(eRes.results) :
                LET r == eRes.results[k]
                    st == eTried[Len(eTried)]
                IN  /\ r.Title[3] = st.item /\ r.Title[4] = st.title
                    /\ r.Link[3] = st.item
                    /\ r.Snippet # <<>> =>
                          (r.Snippet[3] = st.item /\ r.Snippet[4] = st.snippet)

\* the first strategy failed, the second gave results, and at least one
\* more strategy was left
C16_Witness ==
    /\ epc = "done"
    /\ eRes.err = ErrNil
    /\ Len(eRes.results) >= 1
    /\ Len(eTried) = 2
    /\ StrategyCount(selectors) >= 3

\* C17: when every strategy has failed, or a candidate list is empty,
\* extractSearchResults returns no results and an error that names the
\* field that could not be matched.
C17_NoMatchNamesField ==
    (epc = "done" /\ eRes.err # ErrNil) =>
        /\ eRes.results = <<>>
        /\ Len(eTried) = StrategyCount(selectors)
        /\ eRes.err.msg = "all selector strategies failed"
        /\ eRes.err.field \in {"ResultItem", "Title", "Snippet"}

(***************************************************************************)
(* Claims: the command layer                                               *)
(***************************************************************************)
\* C18: an action command invoked with no session record ends without
\* having run its browser logic, with nothing written to the output stream
\* and with a non-zero exit code.
C18_NoSessionAbortsNonZero ==
    (cpc = "exited" /\ ~cRecord /\ ~cPlaced) =>
        /\ ~cLogic
        /\ cOut = 0
        /\ cExit # ExitSuccess

\* C19: releasing a persistent context ends no browser process and leaves
\* the session record as it is; an attach reads the record without changing
\* it, so the attach after a release finds the record the release found.
C19_ReleaseKeepsSession ==
    [][/\ (pctx # NoCtx /\ pctx' = NoCtx) => (procs' = procs /\ file' = file)
       /\ (attachRes' # attachRes \/ pctx' \notin {pctx, NoCtx}) =>
             /\ file' = file /\ procs' = procs
             /\ file # NoRecord => (attachRes' = "ok" /\ pctx'.url = file.url)
             /\ file = NoRecord => (attachRes' = "not_running" /\ pctx' = pctx)
      ]_vars

\* a context has been attached and released, and the browser of the record
\* still runs and serves the recorded endpoint
C19_Witness ==
    /\ attachRes = "ok"
    /\ pctx = NoCtx
    /\ file # NoRecord
    /\ procs[file.pid].st = "running"
    /\ procs[file.pid].listening
    /\ WsURL(procs[file.pid].port) = file.url

\* C20: a command that finds the browser context run has placed on it uses
\* it: its pre-run hook reports no error and does not attach to the
\* persistent session, and the temporary context is released by run alone.
C20_AttachXorCreate ==
    (cPlaced /\ cpc \notin {"idle", "prerun"}) =>
        /\ ~cAnnot
        /\ ~cAttached
        /\ cTmp = "released" => cTmpBy = "run"


(***************************************************************************)
(* C21                                                                     *)
(***************************************************************************)
C21_NonRetryable ==
    { <<"context", "canceled">>, <<"context", "deadline", "exceeded">>,
      <<"invalid", "argument">>, <<"not", "found">>, <<"forbidden">>,
      <<"unauthorized">> }

C21_Retryable ==
    { <<"timeout">>, <<"connection", "refused">>, <<"no", "such", "host">>,
      <<"network">>, <<"temporary">>, <<"busy">>, <<"overloaded">> }

\* C21: DefaultIsRetryable is false for nil and for every message whose
\* lower-cased text holds a non-retryable keyword, also when a retryable
\* keyword is present; otherwise it is true exactly when the lower-cased text
\* holds a retryable keyword, so an unclassified message is never retried.
C21_KeywordClassification ==
    dpc = "done" =>
        LET low == ToLower(dErr.msg)
            hasNon == \E kw \in C21_NonRetryable : Contains(low, kw)
            hasRetry == \E kw \in C21_Retryable : Contains(low, kw)
        IN  /\ dErr.nil => ~dRes
            /\ (~dErr.nil /\ hasNon) => ~dRes
            /\ (~dErr.nil /\ ~hasNon) => (dRes <=> hasRetry)

\* a message with a capitalised retryable keyword and a non-retryable one
C21_Witness ==
    /\ dpc = "done"
    /\ dErr = [nil |-> FALSE, msg |-> <<"Timeout", "Not", "found">>]
    /\ ~dRes


(***************************************************************************)
(* C22                                                                     *)
(***************************************************************************)
StartFailures ==
    {"already_running", "no_chrome", "spawn_failed", "wait_failed",
     "save_failed"}

\* C22: a session record is only ever the one written by a Start that passed
\* its readiness probe and returned success; a Start that failed at any step
\* (record present, no executable, spawn refused, readiness timeout, save
\* failure) wrote no record, and the process it spawned, if any, is no longer
\* running when it has returned.
C22_FailedStartLeavesNothing ==
    /\ file # NoRecord =>
          \E i \in Starts : /\ sRes[i] = "ok"
                            /\ file = WsInfo(WsURL(sPort[i]), sPid[i])
    /\ \A i \in Starts :
          (spc[i] = "done" /\ sRes[i] \in StartFailures) =>
              /\ file # NoRecord => file.pid # sPid[i]
              /\ sPid[i] # 0 => procs[sPid[i]].st = "dead"

\* a Start whose save failed after its browser had come up: the browser was
\* killed and there is no record
C22_Witness ==
    \E i \in Starts :
        /\ spc[i] = "done"
        /\ sRes[i] = "save_failed"
        /\ procs[sPid[i]].st = "dead"
        /\ "KILL" \in procs[sPid[i]].sigs
        /\ file = NoRecord


(***************************************************************************)
(* C23                                                                     *)
(***************************************************************************)
RECURSIVE SumSeq(_)
SumSeq(q) == IF q = <<>> THEN 0 ELSE Head(q) + SumSeq(Tail(q))

\* C23: for every policy with MaxAttempts >= 1 and a multiplier >= 1, each
\* backoff slept is at most MaxBackoff and the backoffs slept add up to at
\* most MaxBackoff * (MaxAttempts - 1).
C23_BackoffCapped ==
    (cfg.MaxAttempts >= 1 /\ cfg.BackoffMultiplier >= 2) =>
        /\ \A k \in 1..Len(sleeps) : sleeps[k] <= cfg.MaxBackoff
        /\ SumSeq(sleeps) <= cfg.MaxBackoff * (cfg.MaxAttempts - 1)


(***************************************************************************)
(* C24                                                                     *)
(***************************************************************************)
\* C24: the page-ready wait of EnhancedHnScraper succeeds as soon as any one
\* of the fallback-wait selectors becomes visible, also after earlier
\* candidates failed; it fails only when every candidate fails.
C24_AnyVisibleSucceeds ==
    (hpc = "done" /\ hRes # "navigate_failed") =>
        /\ (\E k \in 1..Len(hWait) : hWait[k] \in hVisible) => hRes = "extract"
        /\ hRes = "wait_failed" =>
              \A k \in 1..Len(hWait) : hWait[k] \notin hVisible


(***************************************************************************)
(* C25                                                                     *)
(***************************************************************************)
\* C25: the title, the link and the snippet of every SearchResult come from
\* one and the same result-item container.
C25_FieldsFromOneContainer ==
    \A i \in 1..Len(qRes) :
        /\ qRes[i].Title.item = qRes[i].Link.item
        /\ qRes[i].Snippet.item = qRes[i].Link.item


(***************************************************************************)
(* C26                                                                     *)
(***************************************************************************)
\* C26: a browser process the program has killed forcefully (SIGKILL) has
\* been sent the graceful stop signal (SIGTERM) by the program before.
C26_GracefulBeforeKill ==
    \A p \in Pids : "KILL" \in procs[p].sigs => "TERM" \in procs[p].sigs


(***************************************************************************)
(* C27                                                                     *)
(***************************************************************************)
\* C27: when Start invocations interleave (no Close in between), at most one
\* of them returns success, and a record that exists names the process that
\* serves the recorded endpoint, unless that process has exited since.
C27_InterleavedStartsExclusive ==
    closeRes = "none" =>
        /\ Cardinality({i \in Starts : sRes[i] = "ok"}) <= 1
        /\ (file # NoRecord /\ procs[file.pid].st = "running") =>
              /\ procs[file.pid].listening
              /\ WsURL(procs[file.pid].port) = file.url


C29_ContentOfOwnLink ==
    \A i \in DOMAIN results :
        results[i].Content \in
            {Truncate(Body(results[i].Link, n)) : n \in BodyLens}


(***************************************************************************)
(* C30                                                                     *)
(***************************************************************************)
\* C30: once the page has been read, HnScraper returns exactly
\* min(limit, number of titles) submissions, all titles when limit <= 0,
\* whatever the number of matches of the other fields: a field with fewer
\* matches gives an empty or zero value, never an out-of-range failure.
C30_CountIsMinOfLimitAndTitles ==
    (npc = "done" /\ nErr \notin {"navigate", "extract"}) =>
        /\ nErr = "nil"
        /\ Len(nRes) = IF nLimit <= 0 \/ nLimit > nCounts.titles
                       THEN nCounts.titles
                       ELSE nLimit

=============================================================================
